---------------------------- MODULE Spec2Model ----------------------------
(***************************************************************************)
(* A state-machine model of training/train_flux_lora.py: the AnkyDataset  *)
(* directory scan, the start-up of main() (device placement, DataLoader),  *)
(* the training loop (gradient accumulation, progress events, periodic     *)
(* checkpoints) and the final checkpoint.                                  *)
(*                                                                         *)
(* Tensors, losses and learning rates are left out: no branch of the code  *)
(* depends on their values.  The weights of the adapter are represented by *)
(* the number of optimizer steps that produced them.                       *)
(***************************************************************************)
EXTENDS Integers, Sequences, FiniteSets, TLC

(***************************************************************************)
(* Bounds of the model.                                                    *)
(***************************************************************************)
MaxSteps == 6
MaxBatch == 2
MaxAccum == 2
MaxSave == 2
MaxPairs == 2
MaxGpus == 2
MaxMergeBases == 1
MaxBases == 2

(***************************************************************************)
(* Program constants: the defaults of --gpu_id and --secondary_gpu_id.     *)
(***************************************************************************)
DefaultGpuId == 0
DefaultSecondaryGpuId == 1

VARIABLES
    pc,                     \* position of main() in its code
    max_train_steps,        \* args.max_train_steps
    batch_size,             \* args.batch_size
    gradient_accumulation,  \* args.gradient_accumulation
    save_steps,             \* args.save_steps
    gpu_id,                 \* args.gpu_id
    secondary_gpu_id,       \* args.secondary_gpu_id
    cuda_count,             \* torch.cuda.device_count()
    dataset_dir,            \* the directory args.dataset_dir names
    scan_ext,               \* index of the pattern the scan is at
    scan_todo,              \* paths of the current glob not yet yielded
    image_files,            \* AnkyDataset.image_files
    placement,              \* device of each subsystem of the pipeline
    global_step,            \* global_step
    batches_left,           \* batches the current DataLoader iterator still holds
    passes,                 \* iterators created over the DataLoader (counted to MaxSteps + 1)
    pulls,                  \* global_step at each batch pull
    grads,                  \* micro-batches accumulated in the gradients
    opt_steps,              \* calls of optimizer.step()
    lr_steps,               \* calls of lr_scheduler.step()
    zero_grads,             \* calls of optimizer.zero_grad()
    events,                 \* the JSON lines printed so far
    output_dir,             \* checkpoint directories under args.output_dir
    writes,                 \* the checkpoint directories written, in order
    overwritten,            \* checkpoint directories whose weights file was replaced
    fatal,                  \* where an unhandled exception ended the process
    argv,                   \* the arguments as parse_args() returned them
    start_config,           \* the config of the start event, once printed
    config_json,            \* final/config.json, once written
    transfers,              \* tensor moves between devices of the last micro-batch
    calls,                  \* module calls of the last micro-batch and where their inputs were
    m_pc,                   \* position of prepare_dataset.main() in its code
    base_dir,               \* the directory --base_dir names
    new_dir,                \* the directory --new_dir names
    merged,                 \* the files of the merged directory and where each came from
    count,                  \* count of prepare_dataset.main()
    m_src,                  \* index of the source directory the merge is at
    m_todo                  \* paths of the current glob("*") not yet yielded

args == <<max_train_steps, batch_size, gradient_accumulation, save_steps,
          gpu_id, secondary_gpu_id>>
env == <<cuda_count, dataset_dir>>
scan == <<scan_ext, scan_todo, image_files>>
loop == <<global_step, batches_left, passes, pulls>>
optim == <<grads, opt_steps, lr_steps, zero_grads>>
disk == <<output_dir, writes, overwritten>>
micro == <<transfers, calls>>
records == <<argv, start_config, config_json>>
merger == <<m_pc, base_dir, new_dir, merged, count, m_src, m_todo>>
vars == <<pc, args, env, scan, placement, loop, optim, events, disk, fatal,
          micro, records, merger>>

\* args = parse_args(): the namespace of the command line.
parse_args ==
    [max_train_steps |-> max_train_steps,
     batch_size |-> batch_size,
     gradient_accumulation |-> gradient_accumulation,
     save_steps |-> save_steps,
     gpu_id |-> gpu_id,
     secondary_gpu_id |-> secondary_gpu_id]

\* Mutant: the configuration reports the device in use, not the argument.
RunConfigResolved ==
    [max_train_steps |-> max_train_steps,
     batch_size |-> batch_size,
     gradient_accumulation |-> gradient_accumulation,
     save_steps |-> save_steps,
     gpu_id |-> IF cuda_count > 0 THEN gpu_id ELSE 0,
     secondary_gpu_id |-> secondary_gpu_id]

\* vars(args): the fields of the arguments the model carries.
RunConfig ==
    [max_train_steps |-> max_train_steps,
     batch_size |-> batch_size,
     gradient_accumulation |-> gradient_accumulation,
     save_steps |-> save_steps,
     gpu_id |-> gpu_id,
     secondary_gpu_id |-> secondary_gpu_id]

(***************************************************************************)
(* Files.  A path of a directory is its base name and its extension; a     *)
(* directory is the set of its paths.                                      *)
(***************************************************************************)
File(b, e) == [base |-> b, ext |-> e]

\* The patterns of AnkyDataset.__init__, in the order the code tries them.
Patterns == <<"png", "jpg", "jpeg", "webp">>

\* Path.glob("*.<pattern>") on a POSIX file system: the extension is compared
\* as written, upper case does not match a lower-case pattern.  A directory
\* that does not exist yields nothing.
Glob(dir, pattern) ==
    IF dir.exists THEN {f \in dir.files : f.ext = pattern} ELSE {}

\* img_path.with_suffix(".txt")
with_suffix(f, e) == File(f.base, e)

\* str.lower() on the extensions of the model.
Lower(e) ==
    CASE e = "PNG" -> "png"
      [] e = "JPG" -> "jpg"
      [] e = "JPEG" -> "jpeg"
      [] e = "WEBP" -> "webp"
      [] e = "TXT" -> "txt"
      [] OTHER -> e

\* The image paths of a directory, extension in any case, whose caption
\* <base>.txt is in the directory.
CaptionedImages(dir) ==
    {f \in dir.files :
        /\ Lower(f.ext) \in {"png", "jpg", "jpeg", "webp"}
        /\ File(f.base, "txt") \in dir.files}

\* caption_path.exists()
Exists(dir, f) == dir.exists /\ f \in dir.files

\* len(dataset)
dataset_len == Len(image_files)

(***************************************************************************)
(* Events: one JSON line each.  kind is the "event" field ("step" for the  *)
(* per-step records, which carry no "event" field); n is the number the    *)
(* record carries (gpu index, pairs, steps, step), 0 when it carries none. *)
(***************************************************************************)
Event(k, v) == [kind |-> k, n |-> v]

log_json(k, v) == events' = Append(events, Event(k, v))

(***************************************************************************)
(* Devices and checkpoint directories.                                     *)
(***************************************************************************)
Cpu == [type |-> "cpu", index |-> 0]
Cuda(i) == [type |-> "cuda", index |-> i]

\* Mutant: a move to a device the machine does not have succeeds.
AvailableAny(d) == d.type \in {"cpu", "cuda"}

\* A device the process can move a module to.
Available(d) == d.type = "cpu" \/ (d.index >= 0 /\ d.index < cuda_count)

\* device = torch.device(f"cuda:{args.gpu_id}" if torch.cuda.is_available() else "cpu")
device == IF cuda_count > 0 THEN Cuda(gpu_id) ELSE Cpu

Final == [label |-> "final", step |-> 0]
Checkpoint(s) == [label |-> "checkpoint", step |-> s]

NoDir == [exists |-> FALSE, weights |-> 0, config |-> FALSE, writer |-> "none"]

CeilDiv(a, b) == (a + b - 1) \div b

\* Mutant: one sample per batch whatever batch_size is.
BatchesIgnoringBatchSize == dataset_len

\* len(dataloader): DataLoader keeps the last, short batch (drop_last=False).
BatchesPerPass == CeilDiv(dataset_len, batch_size)

CkptNames == {Final} \cup {Checkpoint(s) : s \in 1..MaxSteps}

\* A directory of n captioned images.
PairDir(n) ==
    [exists |-> TRUE,
     files |-> UNION {{File(i, "png"), File(i, "txt")} : i \in 1..n}]

MissingDir == [exists |-> FALSE, files |-> {}]

TrainDirs == {MissingDir} \cup {PairDir(n) : n \in 0..MaxPairs}

\* The checkpoint directories a completed earlier run with the same
\* arguments has left under output_dir.
PriorRun(max, accum, save) ==
    [d \in CkptNames |->
        IF d = Final
        THEN [exists |-> TRUE, weights |-> max \div accum, config |-> TRUE,
              writer |-> "prior"]
        ELSE IF d.step <= max /\ d.step % save = 0
        THEN [exists |-> TRUE, weights |-> d.step \div accum, config |-> FALSE,
              writer |-> "prior"]
        ELSE NoDir]

EmptyOutput == [d \in CkptNames |-> NoDir]

(***************************************************************************)
(* Init: main() is about to run.  The inputs are drawn from two families:  *)
(* the training arguments vary over their whole bounds with the default    *)
(* device identifiers, every device present and an empty output directory, *)
(* or the devices, their identifiers and the output directory vary with a  *)
(* short training run.                                                     *)
(***************************************************************************)
InitProgram ==
    /\ pc = "start"
    /\ scan_ext = 1
    /\ scan_todo = {}
    /\ image_files = <<>>
    /\ placement = [transformer |-> Cpu, vae |-> Cpu, text_encoder |-> Cpu]
    /\ global_step = 0
    /\ batches_left = 0
    /\ passes = 0
    /\ pulls = <<>>
    /\ grads = 0
    /\ opt_steps = 0
    /\ lr_steps = 0
    /\ zero_grads = 0
    /\ events = <<>>
    /\ writes = <<>>
    /\ overwritten = {}
    /\ fatal = "none"

InitTraining ==
    /\ max_train_steps \in 0..MaxSteps
    /\ batch_size \in 1..MaxBatch
    /\ gradient_accumulation \in 1..MaxAccum
    /\ save_steps \in 1..MaxSave
    /\ gpu_id = DefaultGpuId
    /\ secondary_gpu_id = DefaultSecondaryGpuId
    /\ cuda_count = MaxGpus
    /\ dataset_dir \in TrainDirs
    /\ output_dir = EmptyOutput

InitEnvironment ==
    /\ max_train_steps \in 0..MaxSave
    /\ batch_size = 1
    /\ gradient_accumulation = 1
    /\ save_steps \in 1..MaxSave
    /\ gpu_id \in 0..MaxGpus
    /\ secondary_gpu_id \in 0..MaxGpus
    /\ cuda_count \in 0..MaxGpus
    /\ dataset_dir \in TrainDirs
    /\ output_dir \in {EmptyOutput,
                        PriorRun(max_train_steps, gradient_accumulation, save_steps)}

\* What the run has recorded of its configuration; config.json of an
\* earlier run holds the configuration of that run, a longer one.
InitRecords ==
    /\ argv = parse_args
    /\ start_config = <<>>
    /\ config_json = IF output_dir[Final].exists
                     THEN <<[argv EXCEPT !.max_train_steps = @ + 1]>>
                     ELSE <<>>
    /\ transfers = {}
    /\ calls = {}

\* prepare_dataset.py is not running.
MergerOff ==
    /\ m_pc = "off"
    /\ base_dir = MissingDir
    /\ new_dir = MissingDir
    /\ merged = {}
    /\ count = 0
    /\ m_src = 1
    /\ m_todo = {}

Init ==
    /\ InitProgram
    /\ InitTraining \/ InitEnvironment
    /\ InitRecords
    /\ MergerOff

(***************************************************************************)
(* An unhandled exception ends the process.                                *)
(***************************************************************************)
Raise(where) == pc' = "fatal" /\ fatal' = where

(***************************************************************************)
(* main(): start-up.                                                       *)
(***************************************************************************)
\* log_json(event="start", config=vars(args))
LogStart ==
    /\ pc = "start"
    /\ log_json("start", 0)
    /\ start_config' = <<RunConfig>>
    /\ pc' = "gpus"
    /\ UNCHANGED <<args, micro, argv, config_json, merger, env, scan, placement,
                   loop, optim, disk, fatal>>

\* One "gpu" event per device, in index order, when CUDA is available.
GpuEvents == [i \in 1..cuda_count |-> Event("gpu", i - 1)]

LogGpus ==
    /\ pc = "gpus"
    /\ events' = events \o GpuEvents
    /\ pc' = "load"
    /\ UNCHANGED <<args, micro, records, merger, env, scan, placement, loop,
                   optim, disk, fatal>>

\* FluxPipeline.from_pretrained(...); pipe = pipe.to(device).  Moving to a
\* CUDA index the machine does not have raises.
LoadPipeline ==
    /\ pc = "load"
    /\ log_json("loading", 0)
    /\ IF Available(device)
       THEN /\ placement' = [transformer |-> device, vae |-> device,
                             text_encoder |-> device]
            /\ pc' = "lora"
            /\ UNCHANGED fatal
       ELSE /\ Raise("pipe.to")
            /\ UNCHANGED placement
    /\ UNCHANGED <<args, micro, records, merger, env, scan, loop, optim, disk>>

\* LoRA wrapping and freezing: no state the model tracks changes.
LoraSetup ==
    /\ pc = "lora"
    /\ log_json("lora_setup", 0)
    /\ pc' = "dual"
    /\ UNCHANGED <<args, micro, records, merger, env, scan, placement, loop,
                   optim, disk, fatal>>

\* if torch.cuda.device_count() > 1: the VAE and the text encoders move to
\* the secondary device.
DualGpu ==
    /\ pc = "dual"
    /\ IF cuda_count > 1
       THEN IF Available(Cuda(secondary_gpu_id))
            THEN /\ placement' = [placement EXCEPT
                                     !.vae = Cuda(secondary_gpu_id),
                                     !.text_encoder = Cuda(secondary_gpu_id)]
                 /\ log_json("dual_gpu", secondary_gpu_id)
                 /\ pc' = "dataset"
                 /\ UNCHANGED fatal
            ELSE /\ Raise("vae.to")
                 /\ UNCHANGED <<placement, events>>
       ELSE /\ pc' = "dataset"
            /\ UNCHANGED <<placement, events, fatal>>
    /\ UNCHANGED <<args, micro, records, merger, env, scan, loop, optim, disk>>

(***************************************************************************)
(* AnkyDataset.__init__: for each pattern, for each path of its glob, keep *)
(* the path when its caption exists.  glob yields in any order.            *)
(***************************************************************************)
DatasetInit ==
    /\ pc = "dataset"
    /\ image_files' = <<>>
    /\ scan_ext' = 1
    /\ scan_todo' = {}
    /\ pc' = "scan_ext"
    /\ UNCHANGED <<args, micro, records, merger, env, placement, loop, optim,
                   events, disk, fatal>>

ScanOpen ==
    /\ pc = "scan_ext"
    /\ scan_ext <= Len(Patterns)
    /\ scan_todo' = Glob(dataset_dir, Patterns[scan_ext])
    /\ pc' = "scan_file"
    /\ UNCHANGED <<args, micro, records, merger, env, scan_ext, image_files,
                   placement, loop, optim,
                   events, disk, fatal>>

\* The caption test of one image path.
Keep(img) == Exists(dataset_dir, with_suffix(img, "txt"))

ScanFile ==
    /\ pc = "scan_file"
    /\ \E img \in scan_todo :
          /\ scan_todo' = scan_todo \ {img}
          /\ image_files' =
                IF Keep(img)
                THEN Append(image_files, <<img, with_suffix(img, "txt")>>)
                ELSE image_files
    /\ UNCHANGED <<pc, args, micro, records, merger, env, scan_ext, placement,
                   loop, optim, events,
                   disk, fatal>>

ScanClose ==
    /\ pc = "scan_file"
    /\ scan_todo = {}
    /\ scan_ext' = scan_ext + 1
    /\ pc' = "scan_ext"
    /\ UNCHANGED <<args, micro, records, merger, env, scan_todo, image_files,
                   placement, loop, optim,
                   events, disk, fatal>>

\* log_json(event="dataset", pairs=len(self.image_files))
ScanDone ==
    /\ pc = "scan_ext"
    /\ scan_ext > Len(Patterns)
    /\ log_json("dataset", dataset_len)
    /\ pc' = "dataloader"
    /\ UNCHANGED <<args, micro, records, merger, env, scan, placement, loop,
                   optim, disk, fatal>>

\* DataLoader(dataset, batch_size, shuffle=True, num_workers=4): shuffle=True
\* builds a RandomSampler over the dataset, whose constructor raises
\* ValueError when the dataset has no sample.
\* Mutant: a sampler over no sample is accepted.
RandomSamplerAcceptsEmpty(n) == n >= 0

RandomSamplerAccepts(n) == n > 0

MakeDataLoader ==
    /\ pc = "dataloader"
    /\ IF RandomSamplerAccepts(dataset_len)
       THEN pc' = "training_start" /\ UNCHANGED fatal
       ELSE Raise("DataLoader")
    /\ UNCHANGED <<args, micro, records, merger, env, scan, placement, loop,
                   optim, events, disk>>

\* Optimizer, scheduler, log_json(event="training_start"), global_step = 0.
TrainingStart ==
    /\ pc = "training_start"
    /\ log_json("training_start", max_train_steps)
    /\ global_step' = 0
    /\ pc' = "while"
    /\ UNCHANGED <<args, micro, records, merger, env, scan, placement,
                   batches_left, passes, pulls,
                   optim, disk, fatal>>

(***************************************************************************)
(* main(): the training loop.                                              *)
(***************************************************************************)
\* while global_step < args.max_train_steps: entering the body creates a new
\* iterator over the DataLoader (for batch in dataloader).  The count of
\* passes stops at MaxSteps + 1, more than a run of MaxSteps steps over a
\* non-empty loader begins.
\* Mutant: the loop is left one step early.
WhileConditionEarly == global_step + 1 < max_train_steps

WhileCondition == global_step < max_train_steps

WhileEnter ==
    /\ pc = "while"
    /\ WhileCondition
    /\ passes' = IF passes <= MaxSteps THEN passes + 1 ELSE passes
    /\ batches_left' = BatchesPerPass
    /\ pc' = "for"
    /\ UNCHANGED <<args, micro, records, merger, env, scan, placement,
                   global_step, pulls, optim,
                   events, disk, fatal>>

WhileExit ==
    /\ pc = "while"
    /\ ~WhileCondition
    /\ pc' = "final"
    /\ UNCHANGED <<args, micro, records, merger, env, scan, placement, loop,
                   optim, events, disk, fatal>>

\* The iterator yields its next batch.
ForPull ==
    /\ pc = "for"
    /\ batches_left > 0
    /\ batches_left' = batches_left - 1
    /\ pulls' = Append(pulls, global_step)
    /\ pc' = "forward"
    /\ UNCHANGED <<args, micro, records, merger, env, scan, placement,
                   global_step, passes, optim,
                   events, disk, fatal>>

\* The iterator is exhausted: the for statement ends, the while test is next.
ForExhausted ==
    /\ pc = "for"
    /\ batches_left = 0
    /\ pc' = "while"
    /\ UNCHANGED <<args, micro, records, merger, env, scan, placement, loop,
                   optim, events, disk, fatal>>

(***************************************************************************)
(* The devices of the tensors of one micro-batch.  x.to(d) gives a tensor  *)
(* on d; the output of a module is on the module's device; randn_like and  *)
(* arithmetic give a tensor on the device of their operands.               *)
(***************************************************************************)
\* The DataLoader yields its batch in host memory.
Host == Cpu

\* pixel_values = batch["pixel_values"].to(device, ...)
pixel_values == device

\* Mutant: the VAE is taken to be on the secondary GPU whatever the machine.
vae_device_assumed == Cuda(secondary_gpu_id)

\* vae_device = next(pipe.vae.parameters()).device
vae_device == placement.vae

\* Mutant: the pixels are handed to the VAE where they are.
encode_input_unmoved == pixel_values

\* pixel_values.to(vae_device), the argument of pipe.vae.encode
encode_input == vae_device

\* latents = (encode(...).latent_dist.sample() * scaling_factor).to(device)
latents == device

\* noise = torch.randn_like(latents)
noise == latents

\* timesteps = torch.rand(bsz, device=device); timesteps_scaled follows it
timesteps == device

\* noisy_latents = (1 - sigmas) * noise + sigmas * latents
noisy_latents == latents

\* text_device = next(pipe.text_encoder.parameters()).device
text_device == placement.text_encoder

\* prompt_embeds = pipe.encode_prompt(..., device=text_device)[0].to(device=device)
prompt_embeds == device

\* model_pred: the output of pipe.transformer
model_pred == placement.transformer

\* The .to() calls of a micro-batch: the tensor, where it was, where it goes.
Moves ==
    {[tensor |-> "pixel_values", from |-> Host, to |-> pixel_values],
     [tensor |-> "pixel_values", from |-> pixel_values, to |-> encode_input],
     [tensor |-> "latents", from |-> vae_device, to |-> latents],
     [tensor |-> "prompt_embeds", from |-> text_device, to |-> prompt_embeds]}

\* The calls of a micro-batch: the module, its device, the devices of its
\* tensor inputs.  The loss is computed where the step computation is.
ModuleCalls ==
    {[module |-> "vae", on |-> placement.vae, inputs |-> {encode_input}],
     [module |-> "text_encoder", on |-> placement.text_encoder,
      inputs |-> {text_device}],
     [module |-> "transformer", on |-> placement.transformer,
      inputs |-> {noisy_latents, timesteps, prompt_embeds}],
     [module |-> "loss", on |-> device,
      inputs |-> {model_pred, latents, noise}]}

\* Encode, add noise, predict, loss; loss.backward() adds this micro-batch's
\* gradient to the accumulated gradients.
ForwardBackward ==
    /\ pc = "forward"
    /\ transfers' = {m \in Moves : m.from # m.to}
    /\ calls' = ModuleCalls
    /\ grads' = grads + 1
    /\ pc' = "accum"
    /\ UNCHANGED <<args, records, merger, env, scan, placement, loop, opt_steps,
                   lr_steps, zero_grads, events, disk, fatal>>

\* Mutant: the test reads the counter before the micro-batch is counted.
AccumulationDueOffByOne == global_step % gradient_accumulation = 0

\* if (global_step + 1) % args.gradient_accumulation == 0
AccumulationDue == (global_step + 1) % gradient_accumulation = 0

\* optimizer.step()
OptimizerStep ==
    /\ pc = "accum"
    /\ AccumulationDue
    /\ opt_steps' = opt_steps + 1
    /\ pc' = "lr_step"
    /\ UNCHANGED <<args, micro, records, merger, env, scan, placement, loop,
                   grads, lr_steps,
                   zero_grads, events, disk, fatal>>

OptimizerSkip ==
    /\ pc = "accum"
    /\ ~AccumulationDue
    /\ pc' = "incr"
    /\ UNCHANGED <<args, micro, records, merger, env, scan, placement, loop,
                   optim, events, disk, fatal>>

\* lr_scheduler.step()
LrStep ==
    /\ pc = "lr_step"
    /\ lr_steps' = lr_steps + 1
    /\ pc' = "zero_grad"
    /\ UNCHANGED <<args, micro, records, merger, env, scan, placement, loop,
                   grads, opt_steps,
                   zero_grads, events, disk, fatal>>

\* optimizer.zero_grad()
ZeroGrad ==
    /\ pc = "zero_grad"
    /\ grads' = 0
    /\ zero_grads' = zero_grads + 1
    /\ pc' = "incr"
    /\ UNCHANGED <<args, micro, records, merger, env, scan, placement, loop,
                   opt_steps, lr_steps,
                   events, disk, fatal>>

\* Mutant: the progress event is printed before the counter is incremented.
StepProgressStale ==
    /\ pc = "incr"
    /\ global_step' = global_step + 1
    /\ log_json("step", global_step)
    /\ pc' = "save"
    /\ UNCHANGED <<args, micro, records, merger, env, scan, placement,
                   batches_left, passes, pulls,
                   optim, disk, fatal>>

\* global_step += 1; log_json(step=global_step, total=..., loss=..., lr=...)
StepProgress ==
    /\ pc = "incr"
    /\ global_step' = global_step + 1
    /\ log_json("step", global_step + 1)
    /\ pc' = "save"
    /\ UNCHANGED <<args, micro, records, merger, env, scan, placement,
                   batches_left, passes, pulls,
                   optim, disk, fatal>>

\* Mutant: the checkpoint is due one step early.
SaveDueEarly == (global_step + 1) % save_steps = 0

\* if global_step % args.save_steps == 0
SaveDue == global_step % save_steps = 0

\* mkdir(parents=True, exist_ok=True); torch.save(lora_dict, dir / weights):
\* an existing directory is accepted and an existing weights file replaced.
\* Mutant: the checkpoint of a step is saved before the optimizer step the
\* step triggers.
WriteCheckpointBeforeStep(d, withConfig) ==
    /\ output_dir' = [output_dir EXCEPT ![d] =
                        [exists |-> TRUE,
                         weights |-> IF global_step > 0 /\ global_step % gradient_accumulation = 0
                                     THEN opt_steps - 1 ELSE opt_steps,
                         config |-> withConfig, writer |-> "run"]]
    /\ writes' = Append(writes, d)
    /\ overwritten' = IF output_dir[d].exists THEN overwritten \cup {d} ELSE overwritten

WriteCheckpoint(d, withConfig) ==
    /\ output_dir' = [output_dir EXCEPT ![d] =
                        [exists |-> TRUE, weights |-> opt_steps,
                         config |-> withConfig, writer |-> "run"]]
    /\ writes' = Append(writes, d)
    /\ overwritten' = IF output_dir[d].exists
                      THEN overwritten \cup {d}
                      ELSE overwritten

SaveCheckpoint ==
    /\ pc = "save"
    /\ SaveDue
    /\ WriteCheckpoint(Checkpoint(global_step), FALSE)
    /\ log_json("checkpoint", global_step)
    /\ pc' = "break"
    /\ UNCHANGED <<args, micro, records, merger, env, scan, placement, loop,
                   optim, fatal>>

SaveSkip ==
    /\ pc = "save"
    /\ ~SaveDue
    /\ pc' = "break"
    /\ UNCHANGED <<args, micro, records, merger, env, scan, placement, loop,
                   optim, events, disk, fatal>>

\* Mutant: the break comes one step late.
BudgetReachedLate == global_step > max_train_steps

\* if global_step >= args.max_train_steps: break
BudgetReached == global_step >= max_train_steps

Break ==
    /\ pc = "break"
    /\ BudgetReached
    /\ pc' = "while"
    /\ UNCHANGED <<args, micro, records, merger, env, scan, placement, loop,
                   optim, events, disk, fatal>>

Continue ==
    /\ pc = "break"
    /\ ~BudgetReached
    /\ pc' = "for"
    /\ UNCHANGED <<args, micro, records, merger, env, scan, placement, loop,
                   optim, events, disk, fatal>>

(***************************************************************************)
(* main(): the final checkpoint and the completion event.                  *)
(***************************************************************************)
\* Mutant: the final directory gets the weights and no config.json.
SaveFinalWithoutConfig ==
    /\ pc = "final"
    /\ WriteCheckpoint(Final, FALSE)
    /\ pc' = "complete"
    /\ UNCHANGED <<args, micro, records, merger, env, scan, placement, loop,
                   optim, events, fatal>>

\* final_dir, the weights, and json.dump(vars(args)) into config.json.
SaveFinal ==
    /\ pc = "final"
    /\ WriteCheckpoint(Final, TRUE)
    /\ config_json' = <<RunConfig>>
    /\ pc' = "complete"
    /\ UNCHANGED <<args, micro, argv, start_config, merger, env, scan,
                   placement,
                   loop, optim, events, fatal>>

LogComplete ==
    /\ pc = "complete"
    /\ log_json("complete", 0)
    /\ pc' = "done"
    /\ UNCHANGED <<args, micro, records, merger, env, scan, placement, loop,
                   optim, disk, fatal>>

AnkyDataset == DatasetInit \/ ScanOpen \/ ScanFile \/ ScanClose \/ ScanDone

Startup ==
    \/ LogStart \/ LogGpus \/ LoadPipeline \/ LoraSetup \/ DualGpu
    \/ MakeDataLoader \/ TrainingStart

MicroBatch ==
    \/ ForwardBackward \/ OptimizerStep \/ OptimizerSkip \/ LrStep \/ ZeroGrad
    \/ StepProgress \/ SaveCheckpoint \/ SaveSkip \/ Break \/ Continue

Next ==
    \/ Startup
    \/ AnkyDataset
    \/ WhileEnter \/ WhileExit \/ ForPull \/ ForExhausted
    \/ MicroBatch
    \/ SaveFinal \/ LogComplete

Spec == Init /\ [][Next]_vars

(***************************************************************************)
(* The dataset scan on its own: main() up to the end of                    *)
(* AnkyDataset.__init__, over every directory of a small universe of       *)
(* paths (lower- and upper-case image extensions, captions).               *)
(***************************************************************************)
ScanExts == {"png", "PNG", "jpg", "txt"}

FileUniverse == {File(b, e) : b \in 1..MaxBases, e \in ScanExts}

ScanDirs == {[exists |-> TRUE, files |-> F] : F \in SUBSET FileUniverse}

ScanInit ==
    /\ InitProgram
    /\ max_train_steps = 0
    /\ batch_size = 1
    /\ gradient_accumulation = 1
    /\ save_steps = 1
    /\ gpu_id = DefaultGpuId
    /\ secondary_gpu_id = DefaultSecondaryGpuId
    /\ cuda_count = 0
    /\ dataset_dir \in ScanDirs
    /\ output_dir = EmptyOutput
    /\ InitRecords
    /\ MergerOff

ScanNext ==
    \/ LogStart \/ LogGpus \/ LoadPipeline \/ LoraSetup \/ DualGpu
    \/ AnkyDataset

ScanSpec == ScanInit /\ [][ScanNext]_vars

\* The process is scheduled until it ends: every step that can be taken is
\* eventually taken.
FairSpec == Spec /\ WF_vars(Next)

(***************************************************************************)
(* prepare_dataset.py: main() merges base_dir and new_dir into the output  *)
(* directory.  A file of the output directory is its name and the          *)
(* directory its content was copied from.                                  *)
(***************************************************************************)
trainer == <<pc, args, env, scan, placement, loop, optim, events, disk, fatal,
             micro, records>>

\* for src_dir in [args.base_dir, args.new_dir]
SrcDirs == <<base_dir, new_dir>>
SrcNames == <<"base", "new">>

\* shutil.copy2(f, output / f.name): a file of that name is replaced.
copy2(out, f, origin) ==
    {r \in out : r.file # f} \cup {[file |-> f, from |-> origin]}

\* img.suffix.lower() in [".png", ".jpg", ".jpeg", ".webp"]
IsImage(f) == Lower(f.ext) \in {"png", "jpg", "jpeg", "webp"}

\* Mutant: an image is taken whether its caption exists or not.
IsPairUncaptioned(src, img) == IsImage(img)

\* The two tests a path passes to be copied: an image suffix, and
\* cap = img.with_suffix(".txt") exists.
IsPair(src, img) == IsImage(img) /\ Exists(src, with_suffix(img, "txt"))

\* output.mkdir(parents=True, exist_ok=True); count = 0
MergeStart ==
    /\ m_pc = "mkdir"
    /\ count' = 0
    /\ m_src' = 1
    /\ m_pc' = "dir"
    /\ UNCHANGED <<trainer, base_dir, new_dir, merged, m_todo>>

\* if not src.exists(): print("Skipping ..."); continue
MergeSkip ==
    /\ m_pc = "dir"
    /\ m_src <= Len(SrcDirs)
    /\ ~SrcDirs[m_src].exists
    /\ m_src' = m_src + 1
    /\ UNCHANGED <<trainer, m_pc, base_dir, new_dir, merged, count, m_todo>>

\* for img in src.glob("*"): every path of the directory, in any order.
MergeGlob ==
    /\ m_pc = "dir"
    /\ m_src <= Len(SrcDirs)
    /\ SrcDirs[m_src].exists
    /\ m_todo' = SrcDirs[m_src].files
    /\ m_pc' = "file"
    /\ UNCHANGED <<trainer, base_dir, new_dir, merged, count, m_src>>

\* One path of the glob: copied with its caption, and counted, when it is
\* an image whose caption exists.
MergeFile ==
    /\ m_pc = "file"
    /\ \E img \in m_todo :
         /\ m_todo' = m_todo \ {img}
         /\ IF IsPair(SrcDirs[m_src], img)
            THEN /\ merged' = copy2(copy2(merged, img, SrcNames[m_src]),
                                    with_suffix(img, "txt"), SrcNames[m_src])
                 /\ count' = count + 1
            ELSE UNCHANGED <<merged, count>>
    /\ UNCHANGED <<trainer, m_pc, base_dir, new_dir, m_src>>

\* The glob is exhausted: the next source directory.
MergeNextDir ==
    /\ m_pc = "file"
    /\ m_todo = {}
    /\ m_src' = m_src + 1
    /\ m_pc' = "dir"
    /\ UNCHANGED <<trainer, base_dir, new_dir, merged, count, m_todo>>

\* print(f"Dataset prepared: {count} image-caption pairs in {output}")
MergePrint ==
    /\ m_pc = "dir"
    /\ m_src > Len(SrcDirs)
    /\ m_pc' = "done"
    /\ UNCHANGED <<trainer, base_dir, new_dir, merged, count, m_src, m_todo>>

\* The directories the merger is run on: any set of paths of a small
\* universe (a lower- and an upper-case image extension, captions), or no
\* directory at all.
MergeExts == {"png", "PNG", "txt"}

MergeUniverse == {File(b, e) : b \in 1..MaxMergeBases, e \in MergeExts}

MergeDirs ==
    {MissingDir} \cup {[exists |-> TRUE, files |-> F] : F \in SUBSET MergeUniverse}

\* prepare_dataset.py is started on an empty output directory; the trainer
\* is not running.
MergeInit ==
    /\ InitProgram
    /\ max_train_steps = 0
    /\ batch_size = 1
    /\ gradient_accumulation = 1
    /\ save_steps = 1
    /\ gpu_id = DefaultGpuId
    /\ secondary_gpu_id = DefaultSecondaryGpuId
    /\ cuda_count = 0
    /\ dataset_dir = MissingDir
    /\ output_dir = EmptyOutput
    /\ InitRecords
    /\ m_pc = "mkdir"
    /\ base_dir \in MergeDirs
    /\ new_dir \in MergeDirs
    /\ merged = {}
    /\ count = 0
    /\ m_src = 1
    /\ m_todo = {}

MergeNext ==
    \/ MergeStart \/ MergeSkip \/ MergeGlob \/ MergeFile \/ MergeNextDir
    \/ MergePrint

MergeSpec == MergeInit /\ [][MergeNext]_vars

\* main() of prepare_dataset.py runs to its end.
FairMergeSpec == MergeSpec /\ WF_vars(MergeNext)

(***************************************************************************)
(* Notions the properties below are stated with.                           *)
(***************************************************************************)
IsStep(e) == e.kind = "step"
StepEvents == SelectSeq(events, IsStep)

IsFinal(d) == d = Final
FinalWrites == Len(SelectSeq(writes, IsFinal))

IsStepCheckpoint(d) == d.label = "checkpoint"
StepWrites == SelectSeq(writes, IsStepCheckpoint)

Kinds == {events[i].kind : i \in DOMAIN events}

\* Positions of main() at which the current micro-batch has passed the
\* optimizer test of line 210 but is not counted in global_step yet.
PastOptimizerTest == pc \in {"lr_step", "zero_grad", "incr"}

\* Positions of main() inside a micro-batch, before global_step counts it.
InMicroBatch == pc \in {"forward", "accum", "lr_step", "zero_grad", "incr"}

\* Micro-batches whose backward pass has run.
Backwarded ==
    IF pc \in {"accum", "lr_step", "zero_grad", "incr"}
    THEN global_step + 1 ELSE global_step

\* The final checkpoint is written at most once, with global_step at the
\* budget, as the last write; the completion event follows it and is last.
FinalOnce ==
    /\ FinalWrites <= 1
    /\ FinalWrites = 1 =>
         /\ global_step >= max_train_steps
         /\ pc \in {"complete", "done"}
         /\ writes[Len(writes)] = Final
         /\ output_dir[Final].exists /\ output_dir[Final].config
    /\ pc \in {"complete", "done"} => FinalWrites = 1
    /\ ("complete" \in Kinds) =>
         /\ pc = "done"
         /\ events[Len(events)] = Event("complete", 0)
    /\ pc = "done" => "complete" \in Kinds

\* The dataset is built, it is empty, and steps are asked for.
EmptyDataset ==
    pc = "dataloader" /\ dataset_len = 0 /\ max_train_steps > 0

\* The process has ended.
Terminal == pc \in {"done", "fatal"}

\* main() is still before the training loop and has printed no event of it.
AtStartup ==
    /\ pc \in {"start", "gpus", "load", "lora", "dual", "dataset", "scan_ext",
               "scan_file", "dataloader", "fatal"}
    /\ Kinds \cap {"training_start", "step", "checkpoint", "complete"} = {}

\* A device the placement of this machine uses does not exist.
UsedDeviceUnavailable ==
    \/ cuda_count > 0 /\ ~(gpu_id < cuda_count)
    \/ cuda_count > 1 /\ ~(secondary_gpu_id < cuda_count)

\* The last step the checkpoint test of line 225 has been through.
CheckpointedThrough == IF pc = "save" THEN global_step - 1 ELSE global_step

DueSteps(n) == {s \in 1..n : s % save_steps = 0}

----------------------------------------------------------------------------
(***************************************************************************)
(* C1: after k micro-batches exactly k div gradient_accumulation optimizer *)
(* steps have been applied; the gradients are reset once per optimizer     *)
(* step and hold nothing right after it: they always hold the micro-       *)
(* batches backwarded since the last optimizer step.                       *)
(***************************************************************************)
C1_OptimizerStepPerAccumulation ==
    LET k == IF PastOptimizerTest THEN global_step + 1 ELSE global_step
    IN  /\ opt_steps = k \div gradient_accumulation
        /\ lr_steps = IF pc = "lr_step" THEN opt_steps - 1 ELSE opt_steps
        /\ zero_grads = IF pc \in {"lr_step", "zero_grad"}
                        THEN opt_steps - 1 ELSE opt_steps
        /\ grads = IF pc \in {"accum", "lr_step", "zero_grad"}
                   THEN (global_step % gradient_accumulation) + 1
                   ELSE Backwarded % gradient_accumulation
        /\ (pc = "incr" /\ AccumulationDue) => grads = 0

\* An optimizer step of a later pass over the dataset has just reset the
\* gradients of two micro-batches.
C1_Witness ==
    /\ pc = "incr"
    /\ AccumulationDue
    /\ gradient_accumulation = 2
    /\ opt_steps >= 2
    /\ passes >= 2
    /\ grads = 0

(***************************************************************************)
(* C2: the per-step events printed so far carry the steps 1, 2, ...,       *)
(* global_step in this order, each once, and a completed run has printed   *)
(* exactly the steps 1..max_train_steps.                                   *)
(***************************************************************************)
C2_StepEventsInOrder ==
    /\ Len(StepEvents) = global_step
    /\ \A i \in 1..Len(StepEvents) : StepEvents[i].n = i
    /\ pc = "done" => global_step = max_train_steps

\* A completed run of MaxSteps steps that went round the dataset.
C2_Witness ==
    /\ pc = "done"
    /\ max_train_steps = MaxSteps
    /\ passes >= 2
    /\ Len(StepEvents) = MaxSteps

(***************************************************************************)
(* C3: the final checkpoint is written at most once, only when global_step *)
(* has reached max_train_steps, as the last write of the run; a completed  *)
(* run has written it once, with the configuration, and the completion     *)
(* event is the last event; and every run that starts training completes,  *)
(* whatever max_train_steps (0 included) and wherever the budget is        *)
(* reached.                                                                *)
(***************************************************************************)
C3_FinalCheckpointExactlyOnce ==
    /\ []FinalOnce
    /\ (pc = "training_start") ~> (pc = "done" /\ FinalWrites = 1)

\* The budget was reached in the middle of a pass.
C3_Witness ==
    /\ pc = "done"
    /\ batches_left > 0
    /\ FinalWrites = 1
    /\ max_train_steps > 0

(***************************************************************************)
(* C4: with an empty dataset and max_train_steps > 0 the run ends: it      *)
(* does not iterate over the empty loader for ever; and over an empty      *)
(* dataset no pass is begun and no batch is pulled.                        *)
(***************************************************************************)
C4_EmptyDatasetTerminates ==
    /\ EmptyDataset ~> Terminal
    /\ [](dataset_len = 0 => passes = 0 /\ pulls = <<>>)

\* The directory exists and holds no pair: the run ended when the
\* DataLoader was built, before the first batch pull.
C4_Witness ==
    /\ pc = "fatal"
    /\ fatal = "DataLoader"
    /\ dataset_dir.exists
    /\ max_train_steps > 0
    /\ pulls = <<>>

(***************************************************************************)
(* C5.  Original: when the dataset directory does not exist or a device    *)
(* identifier of the arguments names no device of the machine, the run     *)
(* ends at start-up, before the training_start event and any step event.   *)
(***************************************************************************)
C5_Original ==
    (\/ ~dataset_dir.exists
     \/ ~(gpu_id < cuda_count)
     \/ ~(secondary_gpu_id < cuda_count)) => AtStartup

(***************************************************************************)
(* C5, amended: when the dataset directory does not exist, or CUDA is      *)
(* available and gpu_id names no device, or more than one device is        *)
(* present and secondary_gpu_id names no device, the run never leaves      *)
(* start-up: no training_start, step, checkpoint or complete event.        *)
(***************************************************************************)
C5_FatalAtStartup ==
    (~dataset_dir.exists \/ UsedDeviceUnavailable) => AtStartup

\* The secondary device of a dual-device machine does not exist.
C5_Witness ==
    /\ pc = "fatal"
    /\ fatal = "vae.to"
    /\ cuda_count > 1
    /\ dataset_dir.exists

(***************************************************************************)
(* C6: no checkpoint write replaces the weights file of a checkpoint       *)
(* directory that exists already.                                          *)
(***************************************************************************)
C6_NeverOverwrites == overwritten = {}

(***************************************************************************)
(* C7: the dataset holds exactly the image paths (png, jpg, jpeg, webp in  *)
(* any case) whose caption <base>.txt exists.                              *)
(***************************************************************************)
C7_LengthIsCaptionedImages ==
    pc = "dataloader" =>
        dataset_len = Cardinality(CaptionedImages(dataset_dir))

(***************************************************************************)
(* C8: the step-labelled checkpoints written so far are those of the steps *)
(* S <= global_step with S mod save_steps = 0, in order, each once; each   *)
(* checkpoint event follows the step event of its step at once, and each   *)
(* step event of such a step is followed by its checkpoint event.          *)
(***************************************************************************)
C8_CheckpointEverySaveSteps ==
    /\ {StepWrites[i].step : i \in DOMAIN StepWrites} = DueSteps(CheckpointedThrough)
    /\ Len(StepWrites) = Cardinality(DueSteps(CheckpointedThrough))
    /\ \A i \in DOMAIN StepWrites : output_dir[StepWrites[i]].exists
    /\ \A i \in DOMAIN events :
         events[i].kind = "checkpoint" =>
            i > 1 /\ events[i - 1] = Event("step", events[i].n)
    /\ \A i \in DOMAIN events :
         (events[i].kind = "step" /\ events[i].n % save_steps = 0) =>
            IF i = Len(events)
            THEN pc = "save"
            ELSE events[i + 1] = Event("checkpoint", events[i].n)

\* A completed run of 5 steps with a checkpoint every 2 steps.
C8_Witness ==
    /\ pc = "done"
    /\ save_steps = 2
    /\ StepWrites = <<Checkpoint(2), Checkpoint(4)>>
    /\ max_train_steps = 5

(***************************************************************************)
(* C9: global_step never exceeds max_train_steps; every batch is pulled at *)
(* a global_step below max_train_steps; the pulls run on across passes     *)
(* (each pass is used up before the next starts) and stop with the budget. *)
(***************************************************************************)
C9_BudgetRespected ==
    /\ global_step <= max_train_steps
    /\ \A i \in DOMAIN pulls : pulls[i] = i - 1 /\ pulls[i] < max_train_steps
    /\ Len(pulls) = IF InMicroBatch THEN global_step + 1 ELSE global_step
    /\ passes > 0 =>
         Len(pulls) = passes * CeilDiv(dataset_len, batch_size) - batches_left
    /\ pc \in {"final", "complete", "done"} => Len(pulls) = max_train_steps

\* The budget was reached in the middle of the second pass or a later one.
C9_Witness ==
    /\ pc = "done"
    /\ passes >= 2
    /\ batches_left > 0
    /\ global_step = max_train_steps

(***************************************************************************)
(* C10: a completed run over P > 0 pairs has printed max_train_steps step  *)
(* events, applied max_train_steps div gradient_accumulation optimizer     *)
(* steps, begun ceil(max_train_steps / ceil(P / batch_size)) passes and    *)
(* written one final checkpoint.                                           *)
(***************************************************************************)
C10_RunTotals ==
    pc = "done" =>
        /\ dataset_len > 0
        /\ Len(StepEvents) = max_train_steps
        /\ opt_steps = max_train_steps \div gradient_accumulation
        /\ passes = CeilDiv(max_train_steps, CeilDiv(dataset_len, batch_size))
        /\ FinalWrites = 1

\* 2 pairs, max_train_steps = 6, batch_size = 1, gradient_accumulation = 2.
C10_Witness ==
    /\ pc = "done"
    /\ dataset_len = 2
    /\ max_train_steps = 6
    /\ batch_size = 1
    /\ gradient_accumulation = 2
    /\ Len(StepEvents) = 6
    /\ opt_steps = 3
    /\ passes = 3
    /\ FinalWrites = 1

\* The events of a kind printed so far.
CountKind(k) == Cardinality({i \in DOMAIN events : events[i].kind = k})

\* Some event of kind k is printed before position i.
Before(k, i) == \E j \in 1..(i - 1) : events[j].kind = k

(***************************************************************************)
(* C11: the start event is the first record; the start, dataset,           *)
(* training_start and complete events are printed at most once; dataset    *)
(* and training_start precede every step and checkpoint event; complete    *)
(* is printed only once the final checkpoint and its config.json are       *)
(* written by this run, and nothing follows it; a completed run has        *)
(* printed each of the four exactly once.                                  *)
(***************************************************************************)
C11_EventStreamOrdered ==
    /\ events # <<>> => events[1] = Event("start", 0)
    /\ \A k \in {"start", "dataset", "training_start", "complete"} :
         /\ CountKind(k) <= 1
         /\ pc = "done" => CountKind(k) = 1
    /\ \A i \in DOMAIN events :
         /\ events[i].kind \in {"step", "checkpoint"} =>
              Before("dataset", i) /\ Before("training_start", i)
         /\ events[i].kind = "training_start" => Before("dataset", i)
         /\ events[i].kind = "complete" =>
              /\ i = Len(events)
              /\ writes # <<>> /\ writes[Len(writes)] = Final
              /\ output_dir[Final].writer = "run"
              /\ output_dir[Final].config

\* A completed run on a machine with GPUs, with steps and a checkpoint.
C11_Witness ==
    /\ pc = "done"
    /\ CountKind("gpu") >= 1
    /\ CountKind("step") >= 2
    /\ CountKind("checkpoint") >= 1
    /\ events[Len(events)] = Event("complete", 0)

\* Start-up has passed the placement of lines 106 and 131-139.
Placed ==
    /\ pc \notin {"start", "gpus", "load", "lora", "dual"}
    /\ pc = "fatal" => fatal \notin {"pipe.to", "vae.to"}

\* The devices of the subsystems.
Primary == Cuda(gpu_id)
Secondary == Cuda(secondary_gpu_id)
Everywhere(d) == [transformer |-> d, vae |-> d, text_encoder |-> d]

\* A transfer between two devices the subsystems can be placed on; the
\* upload of the host batch of the DataLoader to the device of the step
\* computation is not one.
CrossDevice(m) == m.from # Host

\* The placement the machine calls for, and the transfers it allows.
PlacementAsDecided ==
    Placed =>
      /\ cuda_count = 0 => placement = Everywhere(Cpu) /\ transfers = {}
      /\ cuda_count = 1 =>
           /\ placement = Everywhere(Primary)
           /\ \A m \in transfers : ~CrossDevice(m)
      /\ cuda_count > 1 =>
           /\ placement.vae = Secondary
           /\ placement.text_encoder = Secondary
           /\ placement.transformer = Primary

(***************************************************************************)
(* C12.  Device placement is decided at start-up and does not change       *)
(* afterwards.  With one accelerator every subsystem is on the primary     *)
(* device and no micro-batch moves a tensor from one subsystem device to   *)
(* another; with more than one accelerator the VAE and the text encoders   *)
(* are on the secondary device and the transformer on the primary device   *)
(* for the rest of the run.                                                *)
(***************************************************************************)
C12_PlacementFixed ==
    /\ []PlacementAsDecided
    /\ [][Placed => placement' = placement]_vars

\* A completed run of two micro-batches on a machine with one accelerator,
\* the secondary identifier naming another device.
C12_Witness ==
    /\ pc = "done"
    /\ cuda_count = 1
    /\ secondary_gpu_id # gpu_id
    /\ global_step >= 2
    /\ transfers # {}
    /\ placement = Everywhere(Primary)

(***************************************************************************)
(* C13.  With more than one accelerator, in every micro-batch each module  *)
(* receives its tensor inputs on its own device: the input of the VAE      *)
(* encode call is on the VAE's device, and the inputs of the transformer   *)
(* and of the loss are on the primary device.                              *)
(***************************************************************************)
C13_InputsOnTargetDevice ==
    cuda_count > 1 =>
      \A c \in calls :
        /\ c.inputs = {c.on}
        /\ c.module = "vae" => c.on = placement.vae
        /\ c.module \in {"transformer", "loss"} => c.on = Primary

\* A micro-batch has run with the VAE and the transformer on two devices.
C13_Witness ==
    /\ cuda_count > 1
    /\ Secondary # Primary
    /\ pc = "incr"
    /\ \E c \in calls : c.module = "vae" /\ c.on = Secondary
    /\ \E c \in calls : c.module = "loss" /\ c.on = Primary
    /\ \E m \in transfers : m.tensor = "latents" /\ m.from = Secondary
                            /\ m.to = Primary

(***************************************************************************)
(* C15.  The arguments are never assigned after parse_args(): the          *)
(* configuration of the start event and, once the final checkpoint is      *)
(* written, the configuration in final/config.json both equal the input    *)
(* arguments, field for field.                                             *)
(***************************************************************************)
C15_ConfigNeverMutated ==
    /\ [][args' = args]_vars
    /\ [](/\ RunConfig = argv
          /\ start_config \in {<<>>, <<argv>>}
          /\ pc # "start" => start_config = <<argv>>
          /\ pc \in {"complete", "done"} => config_json = <<argv>>)

\* A completed run that fell back to the CPU with a non-zero gpu_id, over
\* the final directory of an earlier run.
C15_Witness ==
    /\ pc = "done"
    /\ cuda_count = 0
    /\ gpu_id # 0
    /\ global_step >= 1
    /\ Final \in overwritten
    /\ start_config = <<argv>>
    /\ config_json = <<argv>>

\* The optimizer steps a run of s micro-batches has triggered.
StepsApplied(s) == s \div gradient_accumulation

\* The micro-batches a checkpoint written by this run stands for.
StepsOf(d) == IF d = Final THEN max_train_steps ELSE d.step

(***************************************************************************)
(* C16.  A checkpoint written at step S, and the final checkpoint with     *)
(* S = max_train_steps, holds the weights after floor(S /                  *)
(* gradient_accumulation) optimizer steps: the optimizer step of           *)
(* micro-batch S is applied before the checkpoint of S is written.  A      *)
(* completed run has applied floor(max_train_steps /                       *)
(* gradient_accumulation) optimizer steps and leaves the gradients of the  *)
(* last max_train_steps mod gradient_accumulation micro-batches unapplied. *)
(* When max_train_steps is a multiple of save_steps, the final checkpoint  *)
(* holds the weights of checkpoint-<max_train_steps>.                      *)
(***************************************************************************)
C16_CheckpointWeights ==
    /\ \A i \in DOMAIN writes :
         /\ output_dir[writes[i]].writer = "run"
         /\ output_dir[writes[i]].weights = StepsApplied(StepsOf(writes[i]))
    /\ pc = "save" => opt_steps = StepsApplied(global_step)
    /\ pc = "done" =>
         /\ opt_steps = StepsApplied(max_train_steps)
         /\ grads = max_train_steps % gradient_accumulation
         /\ (max_train_steps > 0 /\ max_train_steps % save_steps = 0) =>
              /\ output_dir[Checkpoint(max_train_steps)].writer = "run"
              /\ output_dir[Final].weights =
                   output_dir[Checkpoint(max_train_steps)].weights

\* A completed run of 5 micro-batches, an optimizer step every 2 and a
\* checkpoint every step: the fifth gradient is left unapplied.
C16_Witness ==
    /\ pc = "done"
    /\ max_train_steps = 5
    /\ gradient_accumulation = 2
    /\ save_steps = 1
    /\ grads = 1
    /\ output_dir[Checkpoint(4)].weights = 2
    /\ output_dir[Checkpoint(5)].weights = 2
    /\ output_dir[Final].weights = 2

\* The names of the output directory, and the source directory a file of
\* it was copied from.
Names(out) == {r.file : r \in out}
OriginDir(r) == IF r.from = "base" THEN base_dir ELSE new_dir

\* The images of the output directory that have a caption there.
OutputPairs == {r \in merged : IsImage(r.file)
                               /\ with_suffix(r.file, "txt") \in Names(merged)}

MergedAsFiltered ==
    /\ \A r \in merged :
         /\ r.file \in OriginDir(r).files
         /\ IsImage(r.file) => r.file \in CaptionedImages(OriginDir(r))
    /\ m_pc = "done" =>
         \A d \in {base_dir, new_dir} : \A img \in CaptionedImages(d) :
            /\ img \in Names(merged)
            /\ with_suffix(img, "txt") \in Names(merged)

(***************************************************************************)
(* C14.  The merger runs to its end whether the input directories exist    *)
(* or not, and when it ends the output directory holds, under their        *)
(* original names, the image and the caption of every pair of base_dir     *)
(* and of new_dir whose image and caption both exist; an image is copied   *)
(* only from a directory that holds its caption.                           *)
(***************************************************************************)
C14_ValidPairsMerged ==
    /\ []MergedAsFiltered
    /\ <>(m_pc = "done")

\* base_dir does not exist; new_dir holds one pair, which is merged.
C14_Witness ==
    /\ m_pc = "done"
    /\ ~base_dir.exists
    /\ new_dir.files = {File(1, "PNG"), File(1, "txt")}
    /\ merged = {[file |-> File(1, "PNG"), from |-> "new"],
                 [file |-> File(1, "txt"), from |-> "new"]}
    /\ count = 1

(***************************************************************************)
(* C17.  When the merger has ended, every image of the output directory    *)
(* has beside it the caption of the directory the image was copied from,   *)
(* and the count it prints is the number of images of the output           *)
(* directory that have their caption there.                                *)
(***************************************************************************)
C17_OwnCaptionAndCount ==
    m_pc = "done" =>
      /\ \A r \in merged :
           IsImage(r.file) =>
             [file |-> with_suffix(r.file, "txt"), from |-> r.from] \in merged
      /\ count = Cardinality(OutputPairs)

====
